---------------------------- MODULE Spec2Model ----------------------------
(***************************************************************************)
(* Model of the Ollama "improve my notes" editor plugin (src/src/main.ts). *)
(*                                                                         *)
(* Text is a sequence of one-character strings; "\n" is the line break.    *)
(* The editor buffer is one flat sequence, editor positions are            *)
(* (line, ch) records that the editor converts to offsets, clamping the    *)
(* column to the line's length, as the host editor does.                   *)
(***************************************************************************)
EXTENDS Integers, Sequences, FiniteSets, TLC

(***************************************************************************)
(* Bounds of the model.                                                    *)
(***************************************************************************)
\* longest document drawn in Init
MaxDoc == 3
\* most tokens in a response body drawn by the decoder specification
MaxBody == 4
\* most '+'-separated parts of a hotkey string drawn by the hotkey specification
MaxParts == 3
\* most "No text selected" notices before the model stops re-invoking
MaxNotices == 2
\* longest document drawn by the specification with fairness
MaxLiveDoc == 2
MaxConcurrentDoc == 1
MaxChanges == 2
MaxSettingsDoc == 1

\* Characters per chunk of the paced insertion (main.ts:161).
chunkSize == 2

Min(a, b) == IF a < b THEN a ELSE b
Max(a, b) == IF a > b THEN a ELSE b

\* All sequences over S of length at most n.
SeqsUpTo(S, n) == UNION {[1..k -> S] : k \in 0..n}

\* String.prototype.slice(from, to) with 0-based, clamped indexes.
slice(s, from, to) == SubSeq(s, Min(from, Len(s)) + 1, Min(to, Len(s)))

(***************************************************************************)
(* The host editor (the Editor object the plugin is handed).               *)
(***************************************************************************)
\* Number of line breaks among the first n characters of d.
NumNewlines(d, n) == Cardinality({i \in 1..n : d[i] = "\n"})

lineCount(d) == NumNewlines(d, Len(d)) + 1

\* Offset at which line l (0-based) starts.
LineStart(d, l) ==
    IF l = 0 THEN 0
    ELSE CHOOSE i \in 1..Len(d) : d[i] = "\n" /\ NumNewlines(d, i) = l

\* Offset at which line l ends (before its line break).
LineEnd(d, l) ==
    IF l = lineCount(d) - 1 THEN Len(d) ELSE LineStart(d, l + 1) - 1

\* Editor position -> offset; a line past the end is the end of the
\* document, a column past the end of its line is the end of that line.
posToOffset(d, pos) ==
    IF pos.line < 0 THEN 0
    ELSE IF pos.line >= lineCount(d) THEN Len(d)
    ELSE LineStart(d, pos.line)
           + Max(0, Min(pos.ch, LineEnd(d, pos.line) - LineStart(d, pos.line)))

\* Offset -> editor position (editor.getCursor).
offsetToPos(d, off) ==
    [line |-> NumNewlines(d, off),
     ch   |-> off - LineStart(d, NumNewlines(d, off))]

\* editor.getSelection()
getSelection(d, s) == SubSeq(d, s.from + 1, s.to)

\* How a position p moves when [f, t) is replaced by n characters.
MapPos(p, f, t, n, assoc) ==
    IF p < f THEN p
    ELSE IF p < t \/ (p = t /\ assoc < 0 /\ t = f)
         THEN (IF p = f \/ assoc < 0 THEN f ELSE f + n)
    ELSE p - (t - f) + n

\* editor.replaceSelection(text): the selected range becomes text and the
\* selection collapses to a cursor after the inserted text.
replaceSelection(d, s, text) ==
    [doc |-> SubSeq(d, 1, s.from) \o text \o SubSeq(d, s.to + 1, Len(d)),
     sel |-> [from |-> s.from + Len(text), to |-> s.from + Len(text)]]

\* editor.replaceRange(text, from, to): the range becomes text; the
\* selection is carried through the change.
replaceRange(d, s, text, from, to) ==
    LET f == posToOffset(d, from)
        t == Max(f, posToOffset(d, to))
    IN [doc |-> SubSeq(d, 1, f) \o text \o SubSeq(d, t + 1, Len(d)),
        sel |-> IF s.from = s.to
                THEN [from |-> MapPos(s.from, f, t, Len(text), -1),
                      to   |-> MapPos(s.from, f, t, Len(text), -1)]
                ELSE [from |-> MapPos(s.from, f, t, Len(text), 1),
                      to   |-> MapPos(s.to, f, t, Len(text), -1)]]


(***************************************************************************)
(* The HTTP response body.  A body is a sequence of tokens: a line break,  *)
(* a blank, or a maximal piece of text that JSON.parse reads as one value  *)
(* or rejects.                                                             *)
(***************************************************************************)
NL == [t |-> "nl", response |-> <<>>]
SP == [t |-> "sp", response |-> <<>>]
\* {"response": r, "done": ...}
Obj(r) == [t |-> "obj", response |-> r]
\* a JSON object without a response field, such as {"error": "..."}
ObjNoResponse == [t |-> "objNoResponse", response |-> <<>>]
\* the JSON text null
JsonNull == [t |-> "null", response |-> <<>>]
\* text that is not JSON (a truncated record, say)
Bad == [t |-> "bad", response |-> <<>>]

\* What requestUrl can come back with: it throws on a transport error and
\* on an error status, and otherwise returns the body text.
Failed(cause) == [kind |-> "error", cause |-> cause, text |-> <<>>]
Ok(body) == [kind |-> "ok", cause |-> "", text |-> body]

\* response.text.split('\n')
RECURSIVE split(_)
split(body) ==
    IF \A i \in 1..Len(body) : body[i] # NL THEN <<body>>
    ELSE LET i == CHOOSE k \in 1..Len(body) :
                     body[k] = NL /\ \A j \in 1..(k - 1) : body[j] # NL
         IN <<SubSeq(body, 1, i - 1)>> \o split(SubSeq(body, i + 1, Len(body)))

\* line.trim(): leading and trailing blanks removed.
RECURSIVE trim(_)
trim(line) ==
    IF line = <<>> THEN line
    ELSE IF Head(line) = SP THEN trim(Tail(line))
    ELSE IF line[Len(line)] = SP THEN trim(SubSeq(line, 1, Len(line) - 1))
    ELSE line

\* .filter(line => line.trim()): the lines that are not blank.
nonBlankLines(body) == SelectSeq(split(body), LAMBDA line : trim(line) # <<>>)

\* JSON.parse(line): blanks around the value are skipped; exactly one value
\* must remain.  [threw |-> TRUE] is the SyntaxError.
JSONparse(line) ==
    LET rest == SelectSeq(line, LAMBDA tok : tok # SP)
    IN IF Len(rest) = 1 /\ rest[1].t \in {"obj", "objNoResponse", "null"}
       THEN [threw |-> FALSE, value |-> rest[1]]
       ELSE [threw |-> TRUE, value |-> Bad]

\* One turn of the decoding loops: the fragment the line contributes
\* (<<>> for none) and whether the turn ended in the catch block.  Reading
\* .response of null throws inside the try as well.
lineFragment(line) ==
    LET parsed == JSONparse(line)
    IN IF parsed.threw \/ parsed.value.t = "null"
       THEN [caught |-> TRUE, fragment |-> <<>>]
       ELSE IF parsed.value.t = "obj" /\ parsed.value.response # <<>>
       THEN [caught |-> FALSE, fragment |-> parsed.value.response]
       ELSE [caught |-> FALSE, fragment |-> <<>>]

\* Mutant of improveTextLoop: each fragment goes in front of the text so far.
RECURSIVE improveTextLoopPrepending(_, _)
improveTextLoopPrepending(lines, fullResponse) ==
    IF lines = <<>> THEN fullResponse
    ELSE improveTextLoopPrepending(Tail(lines),
             lineFragment(Head(lines)).fragment \o fullResponse)

\* The for loop of improveText: fullResponse += jsonResponse.response.
RECURSIVE improveTextLoop(_, _)
improveTextLoop(lines, fullResponse) ==
    IF lines = <<>> THEN fullResponse
    ELSE improveTextLoop(Tail(lines),
                         fullResponse \o lineFragment(Head(lines)).fragment)

\* Mutant of streamImprovedTextLoop: a line that fails to parse ends the loop.
RECURSIVE streamImprovedTextLoopAborting(_, _)
streamImprovedTextLoopAborting(lines, calls) ==
    IF lines = <<>> THEN calls
    ELSE LET step == lineFragment(Head(lines))
         IN IF step.caught THEN calls
            ELSE streamImprovedTextLoopAborting(Tail(lines),
                     IF step.fragment # <<>> THEN Append(calls, step.fragment)
                     ELSE calls)

\* The for loop of streamImprovedText: onChunk(jsonResponse.response), for
\* a truthy response only.
RECURSIVE streamImprovedTextLoop(_, _)
streamImprovedTextLoop(lines, calls) ==
    IF lines = <<>> THEN calls
    ELSE LET step == lineFragment(Head(lines))
         IN streamImprovedTextLoop(Tail(lines),
                IF step.fragment # <<>> THEN Append(calls, step.fragment)
                ELSE calls)

\* The lines each loop reported through console.error.
loggedLines(lines) == SelectSeq(lines, LAMBDA line : lineFragment(line).caught)

NoResponse == "No response received from Ollama"

\* Mutant of improveText: the catch block returns the error's message as if
\* it were the text.
improveTextReturningError(resp) ==
    IF resp.kind = "error"
    THEN [ok |-> TRUE, value |-> <<resp.cause>>, message |-> ""]
    ELSE LET fullResponse == improveTextLoop(nonBlankLines(resp.text), <<>>)
         IN IF fullResponse = <<>>
            THEN [ok |-> FALSE, value |-> <<>>, message |-> NoResponse]
            ELSE [ok |-> TRUE, value |-> fullResponse, message |-> ""]

\* Mutant of improveText: an empty text is returned like any other.
improveTextWithoutEmptyCheck(resp) ==
    IF resp.kind = "error"
    THEN [ok |-> FALSE, value |-> <<>>, message |-> resp.cause]
    ELSE [ok |-> TRUE,
          value |-> improveTextLoop(nonBlankLines(resp.text), <<>>),
          message |-> ""]

\* improveText after the request came back: the text, or the Error thrown
\* ("Failed to improve text: " followed by the cause's message).
improveText(resp) ==
    IF resp.kind = "error"
    THEN [ok |-> FALSE, value |-> <<>>, message |-> resp.cause]
    ELSE LET fullResponse == improveTextLoop(nonBlankLines(resp.text), <<>>)
         IN IF fullResponse = <<>>
            THEN [ok |-> FALSE, value |-> <<>>, message |-> NoResponse]
            ELSE [ok |-> TRUE, value |-> fullResponse, message |-> ""]

\* streamImprovedText after the request came back: the onChunk calls made,
\* or the Error thrown.
streamImprovedText(resp) ==
    IF resp.kind = "error"
    THEN [ok |-> FALSE, calls |-> <<>>, message |-> resp.cause]
    ELSE [ok |-> TRUE,
          calls |-> streamImprovedTextLoop(nonBlankLines(resp.text), <<>>),
          message |-> ""]

(***************************************************************************)
(* The hotkey string.  It is a sequence of pieces: "+", " " and words; the *)
(* words are chosen so that no two of them side by side spell a modifier   *)
(* name.                                                                   *)
(***************************************************************************)
\* String.prototype.toLowerCase on one piece.
lowerPiece(w) ==
    CASE w = "Ctrl" -> "ctrl"
      [] w = "CMD" -> "cmd"
      [] w = "Command" -> "command"
      [] w = "ALT" -> "alt"
      [] w = "Option" -> "option"
      [] w = "Shift" -> "shift"
      [] w = "Meta" -> "meta"
      [] w = "B" -> "b"
      [] w = "Constructor" -> "constructor"
      [] OTHER -> w

toLowerCase(str) == [i \in 1..Len(str) |-> lowerPiece(str[i])]

\* String.prototype.trim on a sequence of pieces.
RECURSIVE trimStr(_)
trimStr(str) ==
    IF str = <<>> THEN str
    ELSE IF Head(str) = " " THEN trimStr(Tail(str))
    ELSE IF str[Len(str)] = " " THEN trimStr(SubSeq(str, 1, Len(str) - 1))
    ELSE str

\* improveHotkey.split('+')
RECURSIVE splitPlus(_)
splitPlus(str) ==
    IF \A i \in 1..Len(str) : str[i] # "+" THEN <<str>>
    ELSE LET i == CHOOSE k \in 1..Len(str) :
                     str[k] = "+" /\ \A j \in 1..(k - 1) : str[j] # "+"
         IN <<SubSeq(str, 1, i - 1)>> \o splitPlus(SubSeq(str, i + 1, Len(str)))

undefined == "undefined"

\* modifierMap[name], a property read of an object literal: the seven own
\* keys, and what every object inherits from Object.prototype under an
\* all-lower-case name.
modifierMap(name) ==
    IF Len(name) # 1 THEN undefined
    ELSE CASE name[1] \in {"ctrl", "cmd", "command"} -> "Mod"
           [] name[1] \in {"alt", "option"} -> "Alt"
           [] name[1] = "shift" -> "Shift"
           [] name[1] = "meta" -> "Meta"
           [] name[1] = "constructor" -> "[Function: Object]"
           [] name[1] = "__proto__" -> "[Object: null prototype]"
           [] OTHER -> undefined

null == [isNull |-> TRUE, modifiers |-> <<>>, key |-> <<>>]

parseHotkey(improveHotkey) ==
    LET parts == splitPlus(improveHotkey)
        key == trimStr(toLowerCase(parts[Len(parts)]))
        rest == SubSeq(parts, 1, Len(parts) - 1)
        mapped == [i \in 1..Len(rest) |-> modifierMap(trimStr(toLowerCase(rest[i])))]
        modifiers == SelectSeq(mapped, LAMBDA mod : mod # undefined)
    IN IF key = <<>> \/ Len(modifiers) = 0 THEN null
       ELSE [isNull |-> FALSE, modifiers |-> modifiers, key |-> key]

(***************************************************************************)
(* Settings.  A text is the sequence of its UTF-16 code units; the three   *)
(* code units of the prefix outside ASCII are written by their code        *)
(* points.  The temperature is a decimal fraction, which is kept as its    *)
(* numeral (the slider moves it in steps of 0.1).                          *)
(***************************************************************************)
DEFAULT_SETTINGS ==
    [instanceUrl |-> "http://localhost:11434",
     model |-> "llama3.2",
     systemPrompt |-> "You are an expert writer helping to improve notes. Make the text more clear, concise and well-structured.",
     temperature |-> "0.7",
     maxTokens |-> 2000,
     insertBelow |-> TRUE,
     streamingSpeed |-> "medium",
     showGeneratingText |-> TRUE,
     generatingText |-> <<"I", "m", "p", "r", "o", "v", "i", "n", "g",
                          ".", ".", ".">>,
     improvedTextPrefix |-> <<"U+00E2", "U+0153", "U+00A8", " ",
                              "I", "m", "p", "r", "o", "v", "e", "d", " ",
                              "v", "e", "r", "s", "i", "o", "n", ":", "\n">>,
     improveHotkey |-> <<"Ctrl", "+", "Shift", "+", "B">>,
     replaceOriginal |-> FALSE,
     enableStreaming |-> TRUE]

\* Mutant of improveRequest: the prompt is what the buffer holds in place of
\* the selection once the placeholder is written.
improveRequestOfPlaceholder(cfg, text) ==
    [url |-> <<cfg.instanceUrl, "/api/generate">>,
     model |-> cfg.model,
     prompt |-> <<"Please improve this text:\n\n">>
                  \o (IF cfg.showGeneratingText THEN cfg.generatingText
                      ELSE text),
     system |-> cfg.systemPrompt,
     stream |-> undefined,
     temperature |-> cfg.temperature,
     num_predict |-> cfg.maxTokens]

\* The body of the POST improveText sends (it names no stream key).
improveRequest(cfg, text) ==
    [url |-> <<cfg.instanceUrl, "/api/generate">>,
     model |-> cfg.model,
     prompt |-> <<"Please improve this text:\n\n">> \o text,
     system |-> cfg.systemPrompt,
     stream |-> undefined,
     temperature |-> cfg.temperature,
     num_predict |-> cfg.maxTokens]

\* The body of the POST streamImprovedText sends.
streamRequest(cfg, text) ==
    [url |-> <<cfg.instanceUrl, "/api/generate">>,
     model |-> cfg.model,
     prompt |-> text,
     system |-> cfg.systemPrompt,
     stream |-> "true",
     temperature |-> cfg.temperature,
     num_predict |-> cfg.maxTokens]

(***************************************************************************)
(* streamText: the text goes into the buffer at position, in one mutation  *)
(* or in chunks with a timer between them.  log collects the mutations.    *)
(* done = FALSE: suspended in the await of the timer.                      *)
(***************************************************************************)
\* Mutant of streamLoop: the write cursor advances by the chunk size, not by
\* the chunk's length.
RECURSIVE streamLoopFixedAdvance(_, _, _, _, _, _, _)
streamLoopFixedAdvance(d, s, text, currentPosition, currentIndex, log, cfg) ==
    IF ~(currentIndex < Len(text))
    THEN [doc |-> d, sel |-> s, currentPosition |-> currentPosition,
          currentIndex |-> currentIndex, log |-> log, done |-> TRUE]
    ELSE LET chunk == slice(text, currentIndex, currentIndex + chunkSize)
             e == replaceRange(d, s, chunk, currentPosition, currentPosition)
             nextPosition == [currentPosition EXCEPT !.ch = @ + chunkSize]
             nextIndex == currentIndex + chunkSize
             nextLog == Append(log, [text |-> chunk, at |-> currentPosition])
         IN IF cfg.enableStreaming
            THEN [doc |-> e.doc, sel |-> e.sel, currentPosition |-> nextPosition,
                  currentIndex |-> nextIndex, log |-> nextLog, done |-> FALSE]
            ELSE streamLoopFixedAdvance(e.doc, e.sel, text, nextPosition,
                                        nextIndex, nextLog, cfg)

\* Mutant of streamLoop: the loop never reports its end.
RECURSIVE streamLoopNeverDone(_, _, _, _, _, _, _)
streamLoopNeverDone(d, s, text, currentPosition, currentIndex, log, cfg) ==
    IF ~(currentIndex < Len(text))
    THEN [doc |-> d, sel |-> s, currentPosition |-> currentPosition,
          currentIndex |-> currentIndex, log |-> log, done |-> FALSE]
    ELSE LET chunk == slice(text, currentIndex, currentIndex + chunkSize)
             e == replaceRange(d, s, chunk, currentPosition, currentPosition)
             nextPosition == [currentPosition EXCEPT !.ch = @ + Len(chunk)]
             nextIndex == currentIndex + chunkSize
             nextLog == Append(log, [text |-> chunk, at |-> currentPosition])
         IN IF cfg.enableStreaming
            THEN [doc |-> e.doc, sel |-> e.sel, currentPosition |-> nextPosition,
                  currentIndex |-> nextIndex, log |-> nextLog, done |-> FALSE]
            ELSE streamLoopNeverDone(e.doc, e.sel, text, nextPosition,
                                     nextIndex, nextLog, cfg)

RECURSIVE streamLoop(_, _, _, _, _, _, _)
streamLoop(d, s, text, currentPosition, currentIndex, log, cfg) ==
    IF ~(currentIndex < Len(text))
    THEN [doc |-> d, sel |-> s, currentPosition |-> currentPosition,
          currentIndex |-> currentIndex, log |-> log, done |-> TRUE]
    ELSE LET chunk == slice(text, currentIndex, currentIndex + chunkSize)
             e == replaceRange(d, s, chunk, currentPosition, currentPosition)
             nextPosition == [currentPosition EXCEPT !.ch = @ + Len(chunk)]
             nextIndex == currentIndex + chunkSize
             nextLog == Append(log, [text |-> chunk, at |-> currentPosition])
         IN IF cfg.enableStreaming
            THEN [doc |-> e.doc, sel |-> e.sel, currentPosition |-> nextPosition,
                  currentIndex |-> nextIndex, log |-> nextLog, done |-> FALSE]
            ELSE streamLoop(e.doc, e.sel, text, nextPosition, nextIndex,
                            nextLog, cfg)

streamText(d, s, text, position, log, cfg) ==
    IF ~cfg.enableStreaming
    THEN LET e == replaceRange(d, s, text, position, position)
         IN [doc |-> e.doc, sel |-> e.sel, currentPosition |-> position,
             currentIndex |-> 0,
             log |-> Append(log, [text |-> text, at |-> position]),
             done |-> TRUE]
    ELSE streamLoop(d, s, text, position, 0, log, cfg)

(***************************************************************************)
(* State.                                                                  *)
(***************************************************************************)
VARIABLES
    settings,          \* this.settings
    doc,               \* the editor buffer
    sel,               \* the editor selection, [from, to] as offsets
    pc,                \* where improveSelectedText stands
    selectedText,      \* locals of improveSelectedText
    originalPosition,
    selectionEnd,
    improvedText,
    position,          \* locals of streamText
    currentPosition,
    currentIndex,
    mutations,         \* the buffer mutations streamText has made
    notices,           \* the Notices shown
    requests,          \* the generation requests issued
    docBefore,         \* the buffer and selection when improve was invoked
    selBefore,
    hotkey,            \* <<parseHotkey()>> once onload has run
    commands,          \* the commands onload registered
    wire,              \* what requestUrl came back with
    improved,          \* <<outcome>> of the improveText call, once made
    streamed,          \* <<outcome>> of the streamImprovedText call, once made
    sent,              \* the text the two calls were given and the requests
                       \* they built
    received,          \* the response each of the two calls came back with
    second,            \* pc and locals of a second call of improveSelectedText
    persisted,         \* the record in the plugin's data file
    writes,            \* the saveData calls not yet completed, oldest first
    loading,           \* the loadData calls not yet completed
    loads,             \* how many times loadSettings has been called
    changes,           \* how many settings changes the user has made
    invokedWith        \* this.settings when improveSelectedText was called

editorVars == <<doc, sel, pc, selectedText, originalPosition, selectionEnd,
                improvedText, position, currentPosition, currentIndex,
                mutations, notices, requests, docBefore, selBefore>>
hotkeyVars == <<hotkey, commands>>
decodeVars == <<wire, improved, streamed>>
configVars == <<persisted, writes, loading, loads, changes, invokedWith>>
callVars == <<sent, received>>
restVars == <<callVars, second, configVars>>
vars == <<settings, editorVars, hotkeyVars, decodeVars, restVars>>

NoTextSelected == [text |-> "No text selected", cause |-> ""]
ErrorNotice(message) ==
    [text |-> "Error: Failed to improve text: ", cause |-> message]

\* Mutant of noSelection: only a missing selection counts, not an empty one.
noSelectionNullOnly(text) == FALSE

\* `!selectedText`
noSelection(text) == text = <<>>

\* main.ts:105-107: the placeholder replaces the selection.
showPlaceholder(d, s, cfg) ==
    IF cfg.showGeneratingText
    THEN replaceSelection(d, s, cfg.generatingText)
    ELSE [doc |-> d, sel |-> s]

\* main.ts:111-121, up to the call of streamText: where the text goes.
replaceOriginalPlacement(d, s, cfg, origin) ==
    LET e == IF cfg.showGeneratingText
             THEN replaceRange(d, s, <<>>, origin,
                               [line |-> origin.line,
                                ch |-> origin.ch + Len(cfg.generatingText)])
             ELSE [doc |-> d, sel |-> s]
    IN [doc |-> e.doc, sel |-> e.sel, position |-> origin]

\* main.ts:122-137, up to the call of streamText.
insertBelowPlacement(d, s, cfg, text, endPos) ==
    LET e1 == replaceSelection(d, s, text)
        e2 == IF cfg.improvedTextPrefix # <<>>
              THEN replaceRange(e1.doc, e1.sel,
                                <<"\n", "\n">> \o cfg.improvedTextPrefix,
                                endPos, endPos)
              ELSE replaceRange(e1.doc, e1.sel, <<"\n", "\n">>, endPos, endPos)
    IN [doc |-> e2.doc, sel |-> e2.sel,
        position |-> [line |-> endPos.line + 2,
                      ch |-> IF cfg.improvedTextPrefix # <<>>
                             THEN Len(cfg.improvedTextPrefix) ELSE 0]]

\* main.ts:139-142: the catch block's buffer mutation.
restoreOnError(d, s, cfg, text) ==
    IF cfg.showGeneratingText
    THEN replaceSelection(d, s, text)
    ELSE [doc |-> d, sel |-> s]

(***************************************************************************)
(* Inputs.                                                                 *)
(***************************************************************************)
DocChars == {"a", "\n"}
GeneratingTexts == {<<"G", "g">>, <<"G", "\n">>}
Prefixes == {<<>>, <<"P">>, <<"P", "\n">>}

SettingsChoices ==
    {[DEFAULT_SETTINGS EXCEPT !.showGeneratingText = sg, !.generatingText = gt,
                              !.replaceOriginal = ro, !.improvedTextPrefix = px,
                              !.enableStreaming = es] :
        sg \in BOOLEAN, gt \in GeneratingTexts, ro \in BOOLEAN,
        px \in Prefixes, es \in BOOLEAN}

\* What the server may answer an improve request with.
Responses ==
    {Failed("net::ERR_CONNECTION_REFUSED"),
     Failed("Request failed, status 500"),
     Ok(<<>>),
     Ok(<<NL, SP, NL>>),
     Ok(<<Bad, NL, JsonNull>>),
     Ok(<<Obj(<<>>), NL, ObjNoResponse>>),
     Ok(<<Obj(<<"r">>)>>),
     Ok(<<Obj(<<"r">>), NL, Bad, NL, Obj(<<"q">>), NL>>),
     Ok(<<Obj(<<"r", "q">>), NL, Obj(<<"t">>)>>),
     Ok(<<Obj(<<"r", "\n">>), NL, Obj(<<"q">>)>>),
     Ok(<<Obj(<<"r", "q">>), NL, Obj(<<"t", "u", "v">>)>>)}

origin0 == [line |-> 0, ch |-> 0]

\* The editor with a document of at most n characters and any selection.
InitEditorUpTo(n) ==
    /\ doc \in SeqsUpTo(DocChars, n)
    /\ \E from \in 0..Len(doc) : \E to \in from..Len(doc) :
          sel = [from |-> from, to |-> to]
    /\ pc = "Idle"
    /\ selectedText = <<>>
    /\ originalPosition = origin0
    /\ selectionEnd = origin0
    /\ improvedText = <<>>
    /\ position = origin0
    /\ currentPosition = origin0
    /\ currentIndex = 0
    /\ mutations = <<>>
    /\ notices = <<>>
    /\ requests = <<>>
    /\ docBefore = doc
    /\ selBefore = sel

InitEditor == InitEditorUpTo(MaxDoc)

\* no request has come back
NoWire == [kind |-> "none", cause |-> "", text |-> <<>>]

\* neither call has been made
NoneSent == [text |-> <<>>, blocking |-> <<>>, streaming |-> <<>>]
NoneReceived == [blocking |-> <<>>, streaming |-> <<>>]

\* improveSelectedText not called
NotCalled ==
    [pc |-> "Idle", selectedText |-> <<>>, originalPosition |-> origin0,
     selectionEnd |-> origin0, improvedText |-> <<>>, position |-> origin0,
     currentPosition |-> origin0, currentIndex |-> 0]

\* The settings have been loaded once and no handler is running.
InitConfig ==
    /\ second = NotCalled
    /\ persisted = settings
    /\ writes = <<>>
    /\ loading = 0
    /\ loads = 1
    /\ changes = 0
    /\ invokedWith = settings

InitDecodeIdle ==
    /\ wire = NoWire
    /\ improved = <<>>
    /\ streamed = <<>>
    /\ sent = NoneSent
    /\ received = NoneReceived
    /\ InitConfig

\* The plugin once onload has run with the settings loaded.
Init ==
    /\ settings \in SettingsChoices
    /\ InitEditor
    /\ hotkey = <<parseHotkey(settings.improveHotkey)>>
    /\ commands = IF hotkey[1].isNull THEN {} ELSE {"improve-selected-note"}
    /\ InitDecodeIdle

(***************************************************************************)
(* improveSelectedText.                                                    *)
(***************************************************************************)
\* The call, up to the await of the request.
Invoke ==
    /\ pc = "Idle"
    /\ LET text == getSelection(doc, sel)
       IN IF noSelection(text)
          THEN /\ Len(notices) < MaxNotices
               /\ notices' = Append(notices, NoTextSelected)
               /\ UNCHANGED <<doc, sel, pc, selectedText, originalPosition,
                              selectionEnd, requests, invokedWith>>
          ELSE LET e == showPlaceholder(doc, sel, settings)
               IN /\ invokedWith' = settings
                  /\ selectedText' = text
                  /\ originalPosition' = offsetToPos(doc, sel.from)
                  /\ selectionEnd' = offsetToPos(doc, sel.to)
                  /\ doc' = e.doc
                  /\ sel' = e.sel
                  /\ requests' = Append(requests, improveRequest(settings, text))
                  /\ pc' = "Generating"
                  /\ UNCHANGED notices
    /\ UNCHANGED <<settings, improvedText, position, currentPosition,
                   currentIndex, mutations, docBefore, selBefore,
                   hotkeyVars, decodeVars, callVars, second, persisted, writes,
                   loading, loads, changes>>

\* Mutant of RequestReturns: a failed generation is requested again.
RequestReturnsRetrying(resp) ==
    /\ pc = "Generating"
    /\ ~improveText(resp).ok
    /\ requests' = Append(requests, requests[1])
    /\ wire' = resp
    /\ UNCHANGED <<settings, doc, sel, pc, selectedText, originalPosition,
                   selectionEnd, improvedText, position, currentPosition,
                   currentIndex, mutations, notices, docBefore, selBefore,
                   hotkeyVars, improved, streamed, restVars>>

\* The request comes back: improveText decodes it or throws, and
\* improveSelectedText goes on to its next await or to its end.
RequestReturns(resp) ==
    /\ pc = "Generating"
    /\ LET out == improveText(resp)
       IN IF ~out.ok
          THEN LET e == restoreOnError(doc, sel, settings, selectedText)
               IN /\ doc' = e.doc
                  /\ sel' = e.sel
                  /\ notices' = Append(notices, ErrorNotice(out.message))
                  /\ pc' = "Failure"
                  /\ UNCHANGED <<improvedText, position, currentPosition,
                                 currentIndex, mutations>>
          ELSE LET placed == IF settings.replaceOriginal
                             THEN replaceOriginalPlacement(doc, sel, settings,
                                                           originalPosition)
                             ELSE insertBelowPlacement(doc, sel, settings,
                                                       selectedText, selectionEnd)
                   r == streamText(placed.doc, placed.sel, out.value,
                                   placed.position, mutations, settings)
               IN /\ improvedText' = out.value
                  /\ position' = placed.position
                  /\ doc' = r.doc
                  /\ sel' = r.sel
                  /\ currentPosition' = r.currentPosition
                  /\ currentIndex' = r.currentIndex
                  /\ mutations' = r.log
                  /\ pc' = IF r.done THEN "Success" ELSE "Pacing"
                  /\ UNCHANGED notices
    /\ wire' = resp
    /\ UNCHANGED <<settings, selectedText, originalPosition, selectionEnd,
                   requests, docBefore, selBefore, hotkeyVars, improved,
                   streamed, restVars>>

\* A pacing timer fires: the while loop of streamText takes its next turn.
TimerFires ==
    /\ pc = "Pacing"
    /\ LET r == streamLoop(doc, sel, improvedText, currentPosition,
                           currentIndex, mutations, settings)
       IN /\ doc' = r.doc
          /\ sel' = r.sel
          /\ currentPosition' = r.currentPosition
          /\ currentIndex' = r.currentIndex
          /\ mutations' = r.log
          /\ pc' = IF r.done THEN "Success" ELSE "Pacing"
    /\ UNCHANGED <<settings, selectedText, originalPosition, selectionEnd,
                   improvedText, position, notices, requests, docBefore,
                   selBefore, hotkeyVars, decodeVars, restVars>>

Next ==
    \/ Invoke
    \/ \E resp \in Responses : RequestReturns(resp)
    \/ TimerFires

Spec == Init /\ [][Next]_vars

\* The request eventually completes or fails, and every pacing timer
\* eventually fires.
InitLive ==
    /\ settings \in SettingsChoices
    /\ InitEditorUpTo(MaxLiveDoc)
    /\ hotkey = <<parseHotkey(settings.improveHotkey)>>
    /\ commands = IF hotkey[1].isNull THEN {} ELSE {"improve-selected-note"}
    /\ InitDecodeIdle

SpecLive ==
    /\ InitLive
    /\ [][Next]_vars
    /\ WF_vars(\E resp \in Responses : RequestReturns(resp))
    /\ WF_vars(TimerFires)

(***************************************************************************)
(* Two calls of improveSelectedText on the same editor: the menu item and  *)
(* the command call it whenever they are triggered, so a second call can   *)
(* start while the first is suspended in an await.  Both work on the one   *)
(* buffer and selection; each has its own locals.                          *)
(***************************************************************************)
InvokeAgain ==
    /\ second.pc = "Idle"
    /\ LET text == getSelection(doc, sel)
       IN IF noSelection(text)
          THEN /\ Len(notices) < MaxNotices
               /\ notices' = Append(notices, NoTextSelected)
               /\ UNCHANGED <<doc, sel, second, requests>>
          ELSE LET e == showPlaceholder(doc, sel, settings)
               IN /\ second' = [second EXCEPT
                                   !.pc = "Generating",
                                   !.selectedText = text,
                                   !.originalPosition = offsetToPos(doc, sel.from),
                                   !.selectionEnd = offsetToPos(doc, sel.to)]
                  /\ doc' = e.doc
                  /\ sel' = e.sel
                  /\ requests' = Append(requests, improveRequest(settings, text))
                  /\ UNCHANGED notices
    /\ UNCHANGED <<settings, pc, selectedText, originalPosition, selectionEnd,
                   improvedText, position, currentPosition, currentIndex,
                   mutations, docBefore, selBefore, hotkeyVars, decodeVars,
                   callVars, configVars>>

RequestReturnsAgain(resp) ==
    /\ second.pc = "Generating"
    /\ LET out == improveText(resp)
       IN IF ~out.ok
          THEN LET e == restoreOnError(doc, sel, settings, second.selectedText)
               IN /\ doc' = e.doc
                  /\ sel' = e.sel
                  /\ notices' = Append(notices, ErrorNotice(out.message))
                  /\ second' = [second EXCEPT !.pc = "Failure"]
                  /\ UNCHANGED mutations
          ELSE LET placed == IF settings.replaceOriginal
                             THEN replaceOriginalPlacement(doc, sel, settings,
                                                           second.originalPosition)
                             ELSE insertBelowPlacement(doc, sel, settings,
                                                       second.selectedText,
                                                       second.selectionEnd)
                   r == streamText(placed.doc, placed.sel, out.value,
                                   placed.position, mutations, settings)
               IN /\ second' = [second EXCEPT
                                   !.improvedText = out.value,
                                   !.position = placed.position,
                                   !.currentPosition = r.currentPosition,
                                   !.currentIndex = r.currentIndex,
                                   !.pc = IF r.done THEN "Success" ELSE "Pacing"]
                  /\ doc' = r.doc
                  /\ sel' = r.sel
                  /\ mutations' = r.log
                  /\ UNCHANGED notices
    /\ wire' = resp
    /\ UNCHANGED <<settings, pc, selectedText, originalPosition, selectionEnd,
                   improvedText, position, currentPosition, currentIndex,
                   requests, docBefore, selBefore, hotkeyVars, improved,
                   streamed, callVars, configVars>>

TimerFiresAgain ==
    /\ second.pc = "Pacing"
    /\ LET r == streamLoop(doc, sel, second.improvedText,
                           second.currentPosition, second.currentIndex,
                           mutations, settings)
       IN /\ doc' = r.doc
          /\ sel' = r.sel
          /\ mutations' = r.log
          /\ second' = [second EXCEPT
                           !.currentPosition = r.currentPosition,
                           !.currentIndex = r.currentIndex,
                           !.pc = IF r.done THEN "Success" ELSE "Pacing"]
    /\ UNCHANGED <<settings, pc, selectedText, originalPosition, selectionEnd,
                   improvedText, position, currentPosition, currentIndex,
                   notices, requests, docBefore, selBefore, hotkeyVars,
                   decodeVars, callVars, configVars>>

InitConcurrent ==
    /\ settings \in SettingsChoices
    /\ InitEditorUpTo(MaxConcurrentDoc)
    /\ hotkey = <<parseHotkey(settings.improveHotkey)>>
    /\ commands = IF hotkey[1].isNull THEN {} ELSE {"improve-selected-note"}
    /\ InitDecodeIdle

NextConcurrent ==
    \/ Next
    \/ InvokeAgain
    \/ \E resp \in Responses : RequestReturnsAgain(resp)
    \/ TimerFiresAgain

SpecConcurrent == InitConcurrent /\ [][NextConcurrent]_vars

(***************************************************************************)
(* The settings tab.  Each onChange handler assigns one field of           *)
(* this.settings and awaits saveSettings; the hotkey handler then unloads  *)
(* and loads the plugin, and onload starts with loadSettings.  A handler   *)
(* can start while another one, or improveSelectedText, is suspended.      *)
(***************************************************************************)
\* What the user may enter in the fields of the tab.
InstanceUrls == {DEFAULT_SETTINGS.instanceUrl, "http://h:1"}
Models == {DEFAULT_SETTINGS.model, "mistral"}
SystemPrompts == {DEFAULT_SETTINGS.systemPrompt, "Be brief."}
Temperatures == {DEFAULT_SETTINGS.temperature, "0.8"}
MaxTokensTexts == {"2000", "4000", ""}
StreamingSpeeds == {"fast", "medium", "slow"}
HotkeyChoices == {DEFAULT_SETTINGS.improveHotkey, <<"ALT", "+", "B">>}

\* Number(value) of the Max Tokens field
Number(value) ==
    CASE value = "2000" -> 2000
      [] value = "4000" -> 4000
      [] value = "" -> 0

\* The records one change of one field leads to.
Edited(cfg) ==
    ({[cfg EXCEPT !.instanceUrl = v] : v \in InstanceUrls}
        \cup {[cfg EXCEPT !.model = v] : v \in Models}
        \cup {[cfg EXCEPT !.insertBelow = v] : v \in BOOLEAN}
        \cup {[cfg EXCEPT !.systemPrompt = v] : v \in SystemPrompts}
        \cup {[cfg EXCEPT !.temperature = v] : v \in Temperatures}
        \cup {[cfg EXCEPT !.maxTokens = Number(v)] : v \in MaxTokensTexts}
        \cup {[cfg EXCEPT !.enableStreaming = v] : v \in BOOLEAN}
        \cup {[cfg EXCEPT !.streamingSpeed = v] : v \in StreamingSpeeds}
        \cup {[cfg EXCEPT !.showGeneratingText = v] : v \in BOOLEAN}
        \cup {[cfg EXCEPT !.generatingText = v] : v \in GeneratingTexts}
        \cup {[cfg EXCEPT !.improvedTextPrefix = v] : v \in Prefixes}
        \cup {[cfg EXCEPT !.replaceOriginal = v] : v \in BOOLEAN}
        \cup {[cfg EXCEPT !.improveHotkey = v] : v \in HotkeyChoices})
    \ {cfg}

\* An onChange handler, up to its await: the field is assigned and saveData
\* is called with the record as it is now.
OnChange(value) ==
    /\ changes < MaxChanges
    /\ value \in Edited(settings)
    /\ changes' = changes + 1
    /\ settings' = value
    /\ writes' = Append(writes,
                        [data |-> value,
                         reload |-> value.improveHotkey # settings.improveHotkey])
    /\ UNCHANGED <<editorVars, hotkeyVars, decodeVars, callVars, second,
                   persisted, loading, loads, invokedWith>>

\* The oldest saveData completes and its handler resumes; the hotkey
\* handler unloads the plugin and loads it: onload calls loadSettings.
SaveCompletes ==
    /\ writes # <<>>
    /\ persisted' = Head(writes).data
    /\ writes' = Tail(writes)
    /\ IF Head(writes).reload
       THEN /\ commands' = {}
            /\ loads' = loads + 1
            /\ loading' = loading + 1
       ELSE UNCHANGED <<commands, loads, loading>>
    /\ UNCHANGED <<settings, editorVars, hotkey, decodeVars, callVars, second,
                   changes, invokedWith>>

\* loadData completes: loadSettings assigns this.settings and onload goes
\* on to register the command.
LoadCompletes ==
    /\ loading > 0
    /\ loading' = loading - 1
    /\ settings' = persisted
    /\ hotkey' = <<parseHotkey(settings'.improveHotkey)>>
    /\ commands' = IF hotkey'[1].isNull THEN {} ELSE {"improve-selected-note"}
    /\ UNCHANGED <<editorVars, decodeVars, callVars, second, persisted, writes,
                   loads, changes, invokedWith>>

InitSettings ==
    /\ settings = DEFAULT_SETTINGS
    /\ InitEditorUpTo(MaxSettingsDoc)
    /\ hotkey = <<parseHotkey(settings.improveHotkey)>>
    /\ commands = IF hotkey[1].isNull THEN {} ELSE {"improve-selected-note"}
    /\ InitDecodeIdle

NextSettings ==
    \/ Next
    \/ \E value \in Edited(settings) : OnChange(value)
    \/ SaveCompletes
    \/ LoadCompletes

SpecSettings == InitSettings /\ [][NextSettings]_vars

(***************************************************************************)
(* The two generation calls on their own: requestUrl has come back with    *)
(* wire, and each call decodes it.                                         *)
(***************************************************************************)
DecodeTokens ==
    {NL, SP, Obj(<<"a">>), Obj(<<"b", "c">>), Obj(<<>>), ObjNoResponse,
     JsonNull, Bad}

\* The texts the two calls are given.
PromptTexts == {<<"a">>, <<"a", "\n", "b">>}

InitEditorIdle ==
    /\ doc = <<>>
    /\ sel = [from |-> 0, to |-> 0]
    /\ pc = "Idle"
    /\ selectedText = <<>>
    /\ originalPosition = origin0
    /\ selectionEnd = origin0
    /\ improvedText = <<>>
    /\ position = origin0
    /\ currentPosition = origin0
    /\ currentIndex = 0
    /\ mutations = <<>>
    /\ notices = <<>>
    /\ requests = <<>>
    /\ docBefore = <<>>
    /\ selBefore = [from |-> 0, to |-> 0]

\* What requestUrl may come back with, in a body of at most n tokens.
DecodeResponses(n) ==
    {Failed("net::ERR_CONNECTION_REFUSED")}
        \cup {Ok(body) : body \in SeqsUpTo(DecodeTokens, n)}

\* The tokens of the response a call has come back with.
TokensOf(got) == IF got = <<>> THEN 0 ELSE Len(got[1].text)

InitDecode ==
    /\ settings = DEFAULT_SETTINGS
    /\ InitEditorIdle
    /\ hotkey = <<parseHotkey(settings.improveHotkey)>>
    /\ commands = {"improve-selected-note"}
    /\ wire = NoWire
    /\ improved = <<>>
    /\ streamed = <<>>
    /\ \E text \in PromptTexts : sent = [NoneSent EXCEPT !.text = text]
    /\ received = NoneReceived
    /\ InitConfig

\* improveText is called: it builds the request, calls requestUrl and
\* is suspended in the await.
CallImproveText ==
    /\ sent.blocking = <<>>
    /\ sent' = [sent EXCEPT !.blocking = <<improveRequest(settings, sent.text)>>]
    /\ UNCHANGED <<settings, editorVars, hotkeyVars, decodeVars, received,
                   second, configVars>>

\* requestUrl settles and improveText decodes the response or throws.
\* The two responses hold MaxBody tokens at most between them.
ImproveTextReturns ==
    /\ sent.blocking # <<>>
    /\ improved = <<>>
    /\ \E resp \in DecodeResponses(MaxBody - TokensOf(received.streaming)) :
          /\ wire' = resp
          /\ received' = [received EXCEPT !.blocking = <<resp>>]
          /\ improved' = <<improveText(resp)>>
    /\ UNCHANGED <<settings, editorVars, hotkeyVars, streamed, sent, second,
                   configVars>>

\* streamImprovedText is called: it builds the request, calls requestUrl
\* and is suspended in the await.
CallStreamImprovedText ==
    /\ sent.streaming = <<>>
    /\ sent' = [sent EXCEPT !.streaming = <<streamRequest(settings, sent.text)>>]
    /\ UNCHANGED <<settings, editorVars, hotkeyVars, decodeVars, received,
                   second, configVars>>

\* requestUrl settles and streamImprovedText hands the fragments to onChunk.
StreamImprovedTextReturns ==
    /\ sent.streaming # <<>>
    /\ streamed = <<>>
    /\ \E resp \in DecodeResponses(MaxBody - TokensOf(received.blocking)) :
          /\ wire' = resp
          /\ received' = [received EXCEPT !.streaming = <<resp>>]
          /\ streamed' = <<streamImprovedText(resp)>>
    /\ UNCHANGED <<settings, editorVars, hotkeyVars, improved, sent, second,
                   configVars>>

NextDecode ==
    \/ CallImproveText
    \/ ImproveTextReturns
    \/ CallStreamImprovedText
    \/ StreamImprovedTextReturns

SpecDecode == InitDecode /\ [][NextDecode]_vars

(***************************************************************************)
(* onload's parse of the configured hotkey.                                *)
(***************************************************************************)
HotkeyWords ==
    {"Ctrl", "CMD", "Command", "ALT", "Option", "Shift", "Meta", "B",
     "constructor", "x"}

\* The parts a hotkey string is put together from: empty, blank, a word, a
\* word with blanks around it.
HotkeyParts ==
    {<<>>, <<" ">>} \cup {<<w>> : w \in HotkeyWords}
        \cup {<<" ", w, " ">> : w \in HotkeyWords}

\* The parts with "+" between them.
RECURSIVE JoinPlus(_)
JoinPlus(parts) ==
    IF Len(parts) = 1 THEN parts[1]
    ELSE parts[1] \o <<"+">> \o JoinPlus(Tail(parts))

HotkeyStrings ==
    {JoinPlus(parts) : parts \in SeqsUpTo(HotkeyParts, MaxParts) \ {<<>>}}

InitHotkey ==
    /\ \E h \in HotkeyStrings :
          settings = [DEFAULT_SETTINGS EXCEPT !.improveHotkey = h]
    /\ InitEditorIdle
    /\ hotkey = <<>>
    /\ commands = {}
    /\ InitDecodeIdle

\* main.ts:51-61
Onload ==
    /\ hotkey = <<>>
    /\ hotkey' = <<parseHotkey(settings.improveHotkey)>>
    /\ commands' = IF hotkey'[1].isNull THEN {} ELSE {"improve-selected-note"}
    /\ UNCHANGED <<settings, editorVars, decodeVars, restVars>>

NextHotkey == Onload

SpecHotkey == InitHotkey /\ [][NextHotkey]_vars

(***************************************************************************)
(* Properties of improveSelectedText (specification Spec).                 *)
(***************************************************************************)
\* The buffer around the original selection.
TextBefore == SubSeq(docBefore, 1, selBefore.from)
TextAfter == SubSeq(docBefore, selBefore.to + 1, Len(docBefore))

ErrorShown ==
    /\ notices # <<>>
    /\ notices[Len(notices)].text = "Error: Failed to improve text: "

\* The characters generated text is made of (no other text holds them).
GeneratedChars == {"r", "q", "t", "u", "v"}

\* C1: when the generation request of an improve operation fails, the
\* buffer afterwards equals the buffer before the operation and an error
\* notice is shown, whatever showGeneratingText and the placement mode.
C1_FullRollback ==
    pc = "Failure" => doc = docBefore /\ ErrorShown

\* C2: with replaceOriginal, a finished improve operation leaves the
\* generated text exactly in place of the original selection: neither the
\* placeholder nor the selected text remains, and the text around the
\* selection is as it was.
C2_ReplaceOriginal ==
    (pc = "Success" /\ settings.replaceOriginal)
        => doc = TextBefore \o improvedText \o TextAfter

\* C3: without replaceOriginal, a finished improve operation leaves the
\* original selection, two line breaks, the prefix and the generated text,
\* in that order, where the selection was, and nothing else.
C3_InsertBelow ==
    (pc = "Success" /\ ~settings.replaceOriginal)
        => doc = TextBefore \o selectedText \o <<"\n", "\n">>
                   \o settings.improvedTextPrefix \o improvedText \o TextAfter

\* The request came back with a body that decodes to some text.
GenerationSucceeded ==
    /\ wire.kind = "ok"
    /\ \E i \in 1..Len(wire.text) :
          wire.text[i].t = "obj" /\ wire.text[i].response # <<>>

\* C4: an improve operation that ends in Failure has written no generated
\* text: streamText has made no mutation and the buffer holds no generated
\* character; and streamText mutates the buffer only once the generation
\* request has come back with text.
C4_NoGeneratedTextOnFailure ==
    /\ pc = "Failure" =>
          /\ mutations = <<>>
          /\ \A i \in 1..Len(doc) : doc[i] \notin GeneratedChars
    /\ mutations # <<>> => GenerationSucceeded /\ pc \in {"Pacing", "Success"}

C4_Witness ==
    /\ pc = "Failure"
    /\ settings.showGeneratingText
    /\ wire.kind = "error"
    /\ doc # docBefore

\* The body decodes to no text at all: no line is one record with a
\* non-empty response.
DecodesToNothing(body) ==
    \A k \in 1..Len(split(body)) :
        LET rest == SelectSeq(split(body)[k], LAMBDA tok : tok # SP)
        IN ~(Len(rest) = 1 /\ rest[1].t = "obj" /\ rest[1].response # <<>>)

\* C7: when the body decodes to no text (no lines, blank lines only,
\* malformed lines only, empty response fields only), the improve
\* operation fails with the "no response" error and nothing is
\* materialized; the text handed to streamText is never empty.
C7_EmptyGenerationFails ==
    /\ (wire.kind = "ok" /\ DecodesToNothing(wire.text)) =>
          /\ pc = "Failure"
          /\ ErrorShown
          /\ notices[Len(notices)].cause = NoResponse
          /\ mutations = <<>>
    /\ pc \in {"Pacing", "Success"} => improvedText # <<>>
    /\ \A i \in 1..Len(mutations) : mutations[i].text # <<>>

C7_Witness ==
    /\ pc = "Failure"
    /\ wire.kind = "ok"
    /\ \E i \in 1..Len(wire.text) : wire.text[i] = Bad
    /\ notices[Len(notices)].cause = NoResponse

\* C8: paced insertion of a text of length L makes ceil(L/2) mutations;
\* the i-th inserts characters [2i, 2i+2) of the text at the start column
\* plus the number of characters already inserted, on the start line, so
\* each column is greater than the one before; the write cursor stays on
\* the start line, at the start column plus the characters inserted.
C8_PacedInsertion ==
    settings.enableStreaming =>
        /\ \A i \in 1..Len(mutations) :
              /\ mutations[i].text
                   = slice(improvedText, 2 * (i - 1), 2 * (i - 1) + 2)
              /\ mutations[i].at
                   = [line |-> position.line, ch |-> position.ch + 2 * (i - 1)]
              /\ i > 1 => mutations[i].at.ch > mutations[i - 1].at.ch
        /\ pc = "Success" => Len(mutations) = (Len(improvedText) + 1) \div 2
        /\ pc \in {"Pacing", "Success"} =>
              /\ currentPosition.line = position.line
              /\ currentPosition.ch
                   = position.ch + Min(2 * Len(mutations), Len(improvedText))

C8_Witness ==
    /\ pc = "Success"
    /\ settings.enableStreaming
    /\ Len(improvedText) = 5
    /\ Len(mutations) = 3
    /\ mutations[3].text = <<"v">>

\* C10: invoked with an empty selection, improve shows the "No text
\* selected" notice and changes nothing else: the buffer and the selection
\* stay, no placeholder is written, no request is issued, and the
\* operation is still Idle.
C10_EmptySelectionNoOp ==
    [][(pc = "Idle" /\ getSelection(doc, sel) = <<>>) =>
          /\ notices' = Append(notices, NoTextSelected)
          /\ doc' = doc
          /\ sel' = sel
          /\ requests' = requests
          /\ pc' = "Idle"]_vars

C10_Witness ==
    /\ pc = "Idle"
    /\ selBefore.from = selBefore.to
    /\ Len(docBefore) > 0
    /\ notices = <<NoTextSelected>>
    /\ doc = docBefore
    /\ requests = <<>>

(***************************************************************************)
(* Properties of the decoder (specification SpecDecode).                   *)
(***************************************************************************)
\* The records of a body, in the order they come in.
RecordsOf(body) == SelectSeq(body, LAMBDA tok : tok.t = "obj")

ResponsesOf(recs) == [i \in 1..Len(recs) |-> recs[i].response]

RECURSIVE Concat(_)
Concat(texts) ==
    IF texts = <<>> THEN <<>> ELSE Head(texts) \o Concat(Tail(texts))

NonEmpty(texts) == SelectSeq(texts, LAMBDA text : text # <<>>)

\* What is left of a line without its blanks.
Unblanked(line) == SelectSeq(line, LAMBDA tok : tok # SP)

\* Every line of the body that is not blank is one JSON record.
WellFormed(body) ==
    \A k \in 1..Len(split(body)) :
        \/ Unblanked(split(body)[k]) = <<>>
        \/ /\ Len(Unblanked(split(body)[k])) = 1
           /\ Unblanked(split(body)[k])[1].t = "obj"

\* C5: for a body whose non-blank lines are all JSON records, the text
\* improveText accumulates and the onChunk calls streamImprovedText makes
\* are the response fields of the records in line order, nothing
\* reordered, duplicated or dropped but the empty ones.
C5_DecodeWellFormed ==
    /\ (improved # <<>> /\ received.blocking[1].kind = "ok"
           /\ WellFormed(received.blocking[1].text)) =>
          LET fields == ResponsesOf(RecordsOf(received.blocking[1].text))
          IN IF Concat(fields) = <<>> THEN ~improved[1].ok
             ELSE improved[1].ok /\ improved[1].value = Concat(fields)
    /\ (streamed # <<>> /\ received.streaming[1].kind = "ok"
           /\ WellFormed(received.streaming[1].text)) =>
          LET fields == ResponsesOf(RecordsOf(received.streaming[1].text))
          IN streamed[1].ok /\ streamed[1].calls = NonEmpty(fields)

C5_Witness ==
    /\ improved # <<>>
    /\ received.blocking[1].kind = "ok"
    /\ WellFormed(received.blocking[1].text)
    /\ Len(RecordsOf(received.blocking[1].text)) = 2
    /\ RecordsOf(received.blocking[1].text)[1].response = <<"b", "c">>
    /\ RecordsOf(received.blocking[1].text)[2].response = <<"a">>
    /\ improved[1].value = <<"b", "c", "a">>
    /\ streamed # <<>>
    /\ received.streaming[1].kind = "ok"
    /\ WellFormed(received.streaming[1].text)
    /\ streamed[1].calls = <<<<"b", "c">>>>

\* The line is one JSON record with a non-empty response.
FragmentLine(line) ==
    /\ Len(Unblanked(line)) = 1
    /\ Unblanked(line)[1].t = "obj"
    /\ Unblanked(line)[1].response # <<>>

\* The fragments of a body: the responses of its fragment lines, in order.
FragmentsOf(body) ==
    LET lines == SelectSeq(split(body), FragmentLine)
    IN [k \in 1..Len(lines) |-> Unblanked(lines[k])[1].response]

\* C6: whatever lines of a body are malformed, decoding does not raise
\* because of them: streamImprovedText returns, improveText fails only
\* for an empty text, and the fragments are exactly those of the valid
\* lines with a non-empty response, in order, each line decoded on its own.
C6_MalformedLineTolerance ==
    /\ (streamed # <<>> /\ received.streaming[1].kind = "ok") =>
          /\ streamed[1].ok
          /\ streamed[1].calls = FragmentsOf(received.streaming[1].text)
    /\ (improved # <<>> /\ received.blocking[1].kind = "ok") =>
          IF FragmentsOf(received.blocking[1].text) = <<>>
          THEN ~improved[1].ok /\ improved[1].message = NoResponse
          ELSE /\ improved[1].ok
               /\ improved[1].value =
                      Concat(FragmentsOf(received.blocking[1].text))

C6_Witness ==
    /\ streamed # <<>>
    /\ received.streaming[1] = Ok(<<Bad, NL, Obj(<<"a">>)>>)
    /\ streamed[1].calls = <<<<"a">>>>
    /\ improved # <<>>
    /\ received.blocking[1] = Ok(<<Bad>>)
    /\ ~improved[1].ok

(***************************************************************************)
(* Properties of the hotkey parser (specification SpecHotkey).             *)
(***************************************************************************)
\* The modifier a token names, case and surrounding blanks aside.
KnownModifier(token) ==
    LET name == trimStr(toLowerCase(token))
    IN IF Len(name) # 1 THEN undefined
       ELSE CASE name[1] \in {"ctrl", "cmd", "command"} -> "Mod"
              [] name[1] \in {"alt", "option"} -> "Alt"
              [] name[1] = "shift" -> "Shift"
              [] name[1] = "meta" -> "Meta"
              [] OTHER -> undefined

\* C9: parseHotkey returns null exactly when the last '+'-separated token
\* is empty once trimmed or no token before it names a known modifier;
\* otherwise the key is the last token, trimmed and in lower case, and the
\* modifiers are those the tokens before it name, unknown tokens dropped.
\* "Ctrl+Shift+B" gives Mod, Shift and "b"; "B" and "" give null.
C9_HotkeyParsing ==
    hotkey # <<>> =>
        LET tokens == splitPlus(settings.improveHotkey)
            key == trimStr(toLowerCase(tokens[Len(tokens)]))
            named == [i \in 1..(Len(tokens) - 1) |-> KnownModifier(tokens[i])]
            modifiers == SelectSeq(named, LAMBDA mod : mod # undefined)
        IN /\ hotkey[1].isNull <=> (key = <<>> \/ modifiers = <<>>)
           /\ ~hotkey[1].isNull =>
                 hotkey[1].key = key /\ hotkey[1].modifiers = modifiers
           /\ settings.improveHotkey = <<"Ctrl", "+", "Shift", "+", "B">> =>
                 hotkey[1] = [isNull |-> FALSE, modifiers |-> <<"Mod", "Shift">>,
                              key |-> <<"b">>]
           /\ settings.improveHotkey \in {<<"B">>, <<>>} => hotkey[1] = null

(***************************************************************************)
(* Further properties of improveSelectedText.                              *)
(***************************************************************************)
\* C11: the prompt of every generation request is made of the text that
\* was selected when improve was invoked, not of the placeholder and not
\* of what the buffer holds once the placeholder is written.
C11_PromptIsOriginalSelection ==
    \A i \in 1..Len(requests) :
        requests[i].prompt
          = <<"Please improve this text:\n\n">> \o getSelection(docBefore, selBefore)

C11_Witness ==
    /\ pc = "Generating"
    /\ settings.showGeneratingText
    /\ Len(requests) = 1
    /\ doc # docBefore
    /\ getSelection(doc, sel) = <<>>

\* The buffer while the request is awaited: the placeholder in place of
\* the selection if showGeneratingText, the untouched buffer otherwise.
WhileGenerating ==
    doc = TextBefore
            \o (IF settings.showGeneratingText THEN settings.generatingText
                ELSE selectedText)
            \o TextAfter

\* C13: an improve operation on a non-empty selection goes from Idle (with
\* the placeholder written exactly if showGeneratingText) to Generating and
\* from there to Success, through the pacing of the insertion, or to
\* Failure; a terminal state is never left; one request is issued on the
\* way and none after.
C13_StateMachineOrder ==
    [][/\ pc = "Idle" => pc' \in {"Idle", "Generating"}
       /\ pc = "Generating" => pc' \in {"Generating", "Pacing", "Success", "Failure"}
       /\ pc = "Pacing" => pc' \in {"Pacing", "Success"}
       /\ pc = "Success" => pc' = "Success"
       /\ pc = "Failure" => pc' = "Failure"
       /\ pc' = "Idle" => requests' = <<>>
       /\ pc' # "Idle" => Len(requests') = 1
       /\ (pc = "Idle" /\ pc' = "Generating") => WhileGenerating'
       /\ pc # "Idle" => requests' = requests]_vars

C13_Witness ==
    /\ pc = "Success"
    /\ settings.showGeneratingText
    /\ Len(requests) = 1
    /\ Len(mutations) = 3

\* C14: if the request eventually comes back and every pacing timer
\* eventually fires, an improve operation that was started reaches Success
\* or Failure; the pacing loop ends at once for the empty text.
C14_Termination ==
    /\ (pc \in {"Generating", "Pacing"}) ~> (pc \in {"Success", "Failure"})
    /\ [](streamLoop(doc, sel, <<>>, position, 0, mutations, settings).done)

C14_Witness ==
    /\ pc = "Success"
    /\ settings.enableStreaming
    /\ Len(mutations) = 3

\* The buffer once the generated text is placed in one mutation.
PlacedAtOnce ==
    LET e == showPlaceholder(docBefore, selBefore, settings)
        placed == IF settings.replaceOriginal
                  THEN replaceOriginalPlacement(e.doc, e.sel, settings,
                                                originalPosition)
                  ELSE insertBelowPlacement(e.doc, e.sel, settings,
                                            selectedText, selectionEnd)
    IN replaceRange(placed.doc, placed.sel, improvedText, placed.position,
                    placed.position).doc

\* C17: once streamText has completed, the buffer after paced insertion is
\* the buffer a single insertion of the same text at the same position
\* gives, for texts with line breaks too.
C17_PacedEqualsUnpaced ==
    (pc = "Success" /\ settings.enableStreaming) => doc = PlacedAtOnce

\* C18: when an improve operation has ended, in Success or in Failure, the
\* placeholder it wrote is no longer in the buffer.
C18_PlaceholderTransient ==
    (pc \in {"Success", "Failure"} /\ settings.showGeneratingText)
        => \A i \in 1..Len(doc) : doc[i] \notin {"G", "g"}

(***************************************************************************)
(* Properties of the requests (specification SpecDecode).                  *)
(***************************************************************************)
\* C15: the request improveText builds carries the model, the prompt, the
\* system prompt, the temperature and the token limit with stream false;
\* the request streamImprovedText builds for the same text and settings is
\* the same but for stream true.
C15_RequestConstruction ==
    /\ sent.blocking # <<>> =>
          /\ sent.blocking[1].model = settings.model
          /\ sent.blocking[1].system = settings.systemPrompt
          /\ sent.blocking[1].temperature = settings.temperature
          /\ sent.blocking[1].num_predict = settings.maxTokens
          /\ sent.blocking[1].stream = "false"
    /\ (sent.blocking # <<>> /\ sent.streaming # <<>>) =>
          sent.streaming[1] = [sent.blocking[1] EXCEPT !.stream = "true"]

(***************************************************************************)
(* Two calls on one editor (specification SpecConcurrent).                 *)
(***************************************************************************)
InFlight == {"Generating", "Pacing"}

\* C12: while one improve operation is between capturing its anchors and
\* its terminal state, a second invocation on the same editor is prevented:
\* two operations are never in flight at once.
C12_SingleOperationInFlight == ~(pc \in InFlight /\ second.pc \in InFlight)

(***************************************************************************)
(* Settings (specification SpecSettings).                                  *)
(***************************************************************************)
AllHandlersCompleted == writes = <<>> /\ loading = 0

\* C16: once all settings handlers have completed the persisted record
\* equals the in-memory configuration, every change having been saved, and
\* the configuration is loaded only once, at startup.
C16_ConfigurationPersistence ==
    /\ AllHandlersCompleted => persisted = settings
    /\ Len(writes) <= changes
    /\ loads <= 1

\* streamText's loop with every timer fired.
RECURSIVE pacedToEnd(_, _, _, _, _, _, _)
pacedToEnd(d, s, text, at, index, log, cfg) ==
    LET r == streamLoop(d, s, text, at, index, log, cfg)
    IN IF r.done THEN r
       ELSE pacedToEnd(r.doc, r.sel, text, r.currentPosition, r.currentIndex,
                       r.log, cfg)

\* The buffer improveSelectedText leaves when it runs from the invocation
\* to its end under the one configuration cfg and the request returns resp.
OutcomeUnder(cfg, resp) ==
    LET text == getSelection(docBefore, selBefore)
        e == showPlaceholder(docBefore, selBefore, cfg)
        out == improveText(resp)
    IN IF ~out.ok THEN restoreOnError(e.doc, e.sel, cfg, text).doc
       ELSE LET placed == IF cfg.replaceOriginal
                          THEN replaceOriginalPlacement(e.doc, e.sel, cfg,
                                   offsetToPos(docBefore, selBefore.from))
                          ELSE insertBelowPlacement(e.doc, e.sel, cfg, text,
                                   offsetToPos(docBefore, selBefore.to))
                r == streamText(placed.doc, placed.sel, out.value,
                                placed.position, <<>>, cfg)
            IN IF r.done THEN r.doc
               ELSE pacedToEnd(r.doc, r.sel, out.value, r.currentPosition,
                               r.currentIndex, r.log, cfg).doc

\* C19: an operation during which settings are changed ends with the buffer
\* it would have ended with under the configuration in effect when it was
\* invoked.
C19_ConfigurationSnapshot ==
    pc \in {"Success", "Failure"} => doc = OutcomeUnder(invokedWith, wire)

=============================================================================
